---- MODULE Spec2Model ----
(***************************************************************************)
(* cvs-screener: the ingestion pipeline (indexer.py, driven by index.py)   *)
(* and the search handler (server.py) over one Qdrant server.              *)
(*                                                                         *)
(* External collaborators (PyPDF2, the completion endpoint, the embedding  *)
(* endpoint, uuid4) are inputs of the actions, drawn from small sets.      *)
(* The Qdrant server is modelled by its contract: named collections with a *)
(* fixed vector size, upsert by id, nearest-neighbour search by cosine     *)
(* similarity restricted by a conjunctive payload filter.                  *)
(***************************************************************************)
EXTENDS Integers, Sequences, FiniteSets, TLC

\* ---------------------------------------------------------------- bounds
MaxPoints == 2

\* ------------------------------------------------------------ JSON values
JNull == [t |-> "null"]
JStr(s) == [t |-> "str", v |-> s]
JNum(n) == [t |-> "num", n |-> n]
JList(items) == [t |-> "list", items |-> items]

EmptyDict == [k \in {} |-> JNull]

\* {**a, **b}: keys of both, the right operand wins
DictMergeLeftWins(a, b) ==
    [k \in (DOMAIN a) \cup (DOMAIN b) |-> IF k \in DOMAIN a THEN a[k] ELSE b[k]]

DictMerge(a, b) ==
    [k \in (DOMAIN a) \cup (DOMAIN b) |-> IF k \in DOMAIN b THEN b[k] ELSE a[k]]

\* ------------------------------------------------------ metadata extractor
expected_fields ==
    [name |-> JNull,
     age |-> JNull,
     years_of_experience |-> JNull,
     skills |-> JList(<<>>),
     languages |-> JList(<<>>),
     education |-> JList(<<>>),
     current_role |-> JNull,
     location |-> JNull]

\* What the completion endpoint can answer.  kind:
\*   "request_failed"  transport failure or non-2xx status
\*   "not_json"        content that json.loads rejects (or no choices key)
\*   "array"           content that is valid JSON but not an object
\*   "object"          a JSON object, held in obj
CompletionObjects ==
    { [name |-> JStr("Jane Doe"), years_of_experience |-> JNum(5),
       skills |-> JList(<<"Python", "AWS">>)],
      [name |-> JStr("Bob"), location |-> JStr("Remote"), email |-> JStr("bob@example.org")],
      [skills |-> JNull, location |-> JStr("Berlin")] }

CompletionResponses ==
    { [kind |-> k, obj |-> EmptyDict] : k \in {"request_failed", "not_json", "array"} }
    \cup { [kind |-> "object", obj |-> o] : o \in CompletionObjects }

\* _call_openai: raises on a failed request or undecodable content, otherwise
\* returns whatever json.loads produced
_call_openai(completion) ==
    IF completion.kind \in {"request_failed", "not_json"}
    THEN [raised |-> TRUE, value |-> completion]
    ELSE [raised |-> FALSE, value |-> completion]

\* extract_metadata: any exception is re-raised as Exception; {**d, **x} raises
\* TypeError when x is not a mapping
extract_metadata(completion) ==
    LET r == _call_openai(completion) IN
    IF r.raised THEN [raised |-> TRUE, metadata |-> EmptyDict]
    ELSE IF r.value.kind # "object" THEN [raised |-> TRUE, metadata |-> EmptyDict]
    ELSE [raised |-> FALSE, metadata |-> DictMerge(expected_fields, r.value.obj)]

\* ------------------------------------------------------------- file system
CvsDirectory == "cvs"
DirectoryPaths == {"cvs", "nodir"}
DirectoryListing == {"a.pdf", "b.pdf", "notes.txt"}
FilePaths == {"cvs/a.pdf", "cvs/b.pdf", "inbox/bad.pdf", "cvs/missing.pdf"}

path_exists_always(p) == TRUE

\* os.path.exists
path_exists(p) == p \in {"cvs", "cvs/a.pdf", "cvs/b.pdf", "cvs/notes.txt", "inbox/bad.pdf"}

\* os.path.join(directory_path, filename)
path_join(d, f) ==
    CASE d = "cvs" /\ f = "a.pdf" -> "cvs/a.pdf"
      [] d = "cvs" /\ f = "b.pdf" -> "cvs/b.pdf"
      [] d = "cvs" /\ f = "notes.txt" -> "cvs/notes.txt"

\* os.path.basename
basename(p) ==
    CASE p = "cvs/a.pdf" -> "a.pdf"
      [] p = "cvs/b.pdf" -> "b.pdf"
      [] p = "cvs/notes.txt" -> "notes.txt"
      [] p = "inbox/bad.pdf" -> "bad.pdf"
      [] p = "cvs/missing.pdf" -> "missing.pdf"

\* filename.endswith('.pdf')
endswith_pdf(f) == f \in {"a.pdf", "b.pdf", "bad.pdf", "missing.pdf"}

\* _extract_text_from_pdf: PyPDF2 reads the two well-formed files and raises
\* on anything else; the exception is re-raised as Exception
_extract_text_from_pdf(p) ==
    CASE p = "cvs/a.pdf" -> [raised |-> FALSE, text |-> "Jane Doe, 5 years experience, Python, AWS"]
      [] p = "cvs/b.pdf" -> [raised |-> FALSE, text |-> "Bob, Go, Remote"]
      [] OTHER -> [raised |-> TRUE, text |-> ""]

\* -------------------------------------------------------- embedding provider
TextA == "Jane Doe, 5 years experience, Python, AWS"
TextB == "Bob, Go, Remote"
QueryText == "python backend engineer"

\* The embedding endpoint is a function of the text and of the deployed
\* embedding model, whose vector length is its own (1 or 2 here).  Vectors
\* have components in {-1, 1}: all vectors of one length have the same norm,
\* so cosine similarity orders them as the dot product does.
ModelDimensions == {1, 2}
Embed(text, d) ==
    CASE text = TextA -> IF d = 1 THEN <<1>> ELSE <<1, 1>>
      [] text = TextB -> IF d = 1 THEN <<-1>> ELSE <<1, -1>>
      [] text = QueryText -> IF d = 1 THEN <<1>> ELSE <<1, 1>>
      [] OTHER -> IF d = 1 THEN <<-1>> ELSE <<-1, -1>>

\* the answers of POST /embeddings for a text: a failure (transport error or
\* non-2xx status, raise_for_status raises) or data[0].embedding
EmbeddingResponses(text) ==
    { [ok |-> FALSE, vector |-> <<>>] }
    \cup { [ok |-> TRUE, vector |-> Embed(text, d)] : d \in ModelDimensions }

\* EMBEDDING_DIMENSION of the environment an Indexer is constructed in
EnvDimensions == {1, 2}

\* ------------------------------------------------------------- Qdrant server
CollectionName == "documents"
OtherCollection == [name |-> "archive", size |-> 2]

PointIds == 1 .. MaxPoints

collection_exists(colls, n) == \E c \in colls : c.name = n
collection_size(colls, n) == (CHOOSE c \in colls : c.name = n).size

\* upsert: rejected when the collection is missing or the vector has another
\* size than the collection; otherwise inserts or replaces by id
qdrant_upsert(colls, pts, n, point) ==
    IF ~collection_exists(colls, n) \/ Len(point.vector) # collection_size(colls, n)
    THEN [raised |-> TRUE, pts |-> pts]
    ELSE [raised |-> FALSE, pts |-> {p \in pts : p.id # point.id} \cup {point}]

\* create_collection(collection_name, VectorParams(size, COSINE))
qdrant_create_collection(colls, n, size) == colls \cup {[name |-> n, size |-> size]}

\* cosine similarity of two vectors of the same length over {-1, 1}, scaled by
\* that length
RECURSIVE Dot(_, _)
Dot(u, v) == IF u = <<>> THEN 0 ELSE Head(u) * Head(v) + Dot(Tail(u), Tail(v))

\* the payload path a filter key addresses ("a.b" is field b of object a)
KeyPath(key) ==
    CASE key = "location" -> <<"location">>
      [] key = "name" -> <<"name">>
      [] key = "filename" -> <<"filename">>
      [] key = "metadata.location" -> <<"metadata", "location">>
      [] key = "metadata.name" -> <<"metadata", "name">>

json_matches(jv, value) ==
    \/ jv = JStr(value)
    \/ jv.t = "list" /\ \E i \in 1 .. Len(jv.items) : jv.items[i] = value

\* FieldCondition(key, MatchValue(value)) against one payload
condition_matches(payload, c) ==
    LET path == KeyPath(c.key) IN
    IF Len(path) = 1
    THEN path[1] \in {"text", "filename", "filepath"} /\ payload[path[1]] = c.value
    ELSE /\ path[1] = "metadata"
         /\ path[2] \in DOMAIN payload.metadata
         /\ json_matches(payload.metadata[path[2]], c.value)

\* query_filter = None restricts nothing; Filter(must = conditions) keeps the
\* points that satisfy every condition
filter_matches(payload, f) == f.isNone \/ \A c \in f.must : condition_matches(payload, c)

Min(a, b) == IF a < b THEN a ELSE b

\* the admissible answers of a nearest-neighbour search among cand: k =
\* min(limit, |cand|) distinct points, highest score first, none left out that
\* scores higher than one returned; the order among equal scores is the
\* store's choice
Rankings(cand, query_vector, limit) ==
    LET k == Min(limit, Cardinality(cand))
        score(p) == Dot(query_vector, p.vector)
        hit(p) == [id |-> p.id, score |-> score(p), payload |-> p.payload]
        ok(s) == /\ \A i, j \in 1 .. k : i < j => s[i] # s[j] /\ score(s[i]) >= score(s[j])
                 /\ \A p \in cand : (\A i \in 1 .. k : s[i] # p) =>
                                       \A i \in 1 .. k : score(s[i]) >= score(p)
    IN { [i \in 1 .. k |-> hit(s[i])] : s \in {t \in [1 .. k -> cand] : ok(t)} }

\* search: rejected when the collection is missing or the query vector has
\* another size than the collection
qdrant_search(colls, pts, n, query_vector, f, limit) ==
    IF ~collection_exists(colls, n) \/ Len(query_vector) # collection_size(colls, n)
    THEN [raised |-> TRUE, rankings |-> {}]
    ELSE [raised |-> FALSE,
          rankings |-> Rankings({p \in pts : filter_matches(p.payload, f)},
                                query_vector, limit)]

\* ------------------------------------------------------------------ indexer
\* uuid.uuid4(): a random identifier; a collision with an identifier already
\* in use has negligible probability and is excluded
uuid4_any(used) == PointIds

uuid4(used) == PointIds \ used

NoCompletion == [kind |-> "unused", obj |-> EmptyDict]
NoEmbedding == [ok |-> FALSE, vector |-> <<0>>]
NoMetadata == [raised |-> FALSE, metadata |-> EmptyDict]

IndexFileResult(error, calls, md, pts) == [error |-> error, calls |-> calls, md |-> md, pts |-> pts]

\* a variant of index_file that requests the embedding before the metadata
index_file_embed_first(file_path, completion, embedding, point_id, collection_name, colls, pts) ==
    IF ~path_exists(file_path)
    THEN IndexFileResult("FileNotFoundError", <<>>, NoMetadata, pts)
    ELSE LET t == _extract_text_from_pdf(file_path) IN
    IF t.raised
    THEN IndexFileResult("Exception", <<"extract_text">>, NoMetadata, pts)
    ELSE IF ~embedding.ok
    THEN IndexFileResult("HTTPError", <<"extract_text", "embedding">>, NoMetadata, pts)
    ELSE LET md == extract_metadata(completion) IN
    IF md.raised
    THEN IndexFileResult("Exception", <<"extract_text", "embedding", "completion">>, md, pts)
    ELSE LET point == [id |-> point_id, vector |-> embedding.vector,
                       payload |-> [text |-> t.text, filename |-> basename(file_path),
                                    filepath |-> file_path, metadata |-> md.metadata]]
             u == qdrant_upsert(colls, pts, collection_name, point) IN
    IndexFileResult(IF u.raised THEN "UnexpectedResponse" ELSE "none",
                    <<"extract_text", "embedding", "completion", "upsert">>, md, u.pts)

\* index_file: the steps of one ingestion and where each failure leaves it
index_file(file_path, completion, embedding, point_id, collection_name, colls, pts) ==
    IF ~path_exists(file_path)
    THEN IndexFileResult("FileNotFoundError", <<>>, NoMetadata, pts)
    ELSE LET t == _extract_text_from_pdf(file_path) IN
    IF t.raised
    THEN IndexFileResult("Exception", <<"extract_text">>, NoMetadata, pts)
    ELSE LET md == extract_metadata(completion) IN
    IF md.raised
    THEN IndexFileResult("Exception", <<"extract_text", "completion">>, md, pts)
    ELSE IF ~embedding.ok
    THEN IndexFileResult("HTTPError", <<"extract_text", "completion", "embedding">>, md, pts)
    ELSE LET point == [id |-> point_id, vector |-> embedding.vector,
                       payload |-> [text |-> t.text, filename |-> basename(file_path),
                                    filepath |-> file_path, metadata |-> md.metadata]]
             u == qdrant_upsert(colls, pts, collection_name, point) IN
    IndexFileResult(IF u.raised THEN "UnexpectedResponse" ELSE "none",
                    <<"extract_text", "completion", "embedding", "upsert">>, md, u.pts)

Called(calls, fn) == \E i \in 1 .. Len(calls) : calls[i] = fn

\* what one index_file call leaves behind for inspection: its argument, the
\* collaborator answers it consumed, the calls it made and how it ended
IndexFileRecord(op, file_path, completion, embedding, point_id, r) ==
    [op |-> op, file_path |-> file_path,
     completion |-> IF Called(r.calls, "completion") THEN completion ELSE NoCompletion,
     embedding |-> IF Called(r.calls, "embedding") THEN embedding ELSE NoEmbedding,
     point_id |-> IF r.error = "none" THEN point_id ELSE 0,
     md |-> r.md, calls |-> r.calls, error |-> r.error]

\* A collaborator answers only when it is asked: the answers one index_file
\* call can consume, given its argument and the answers before
CompletionsFor(file_path) ==
    IF path_exists(file_path) /\ ~_extract_text_from_pdf(file_path).raised
    THEN CompletionResponses ELSE {NoCompletion}
EmbeddingsFor(file_path, completion) ==
    IF completion # NoCompletion /\ ~extract_metadata(completion).raised
    THEN EmbeddingResponses(_extract_text_from_pdf(file_path).text) ELSE {NoEmbedding}
PointIdsFor(embedding, used) == IF embedding.ok THEN uuid4(used) ELSE {0}

VARIABLES collections, points, indexer, dir, last, nIngested
vars == <<collections, points, indexer, dir, last, nIngested>>

IdleDir == [pc |-> "idle", order |-> <<>>, pos |-> 0, attempted |-> <<>>,
            ingested |-> <<>>, nFailed |-> 0]

Init ==
    /\ collections = {OtherCollection}
    /\ points = {}
    /\ indexer = [constructed |-> FALSE]
    /\ dir = IdleDir
    /\ last = [op |-> "none"]
    /\ nIngested = 0

\* _ensure_collection_exists with a collection that is created on every call
ensure_collection_recreate(colls, n, size) ==
    [created |-> TRUE,
     colls |-> qdrant_create_collection({c \in colls : c.name # n}, n, size)]

\* _ensure_collection_exists
_ensure_collection_exists(colls, n, size) ==
    LET exists == \E col \in colls : col.name = n IN
    IF ~exists
    THEN [created |-> TRUE, colls |-> qdrant_create_collection(colls, n, size)]
    ELSE [created |-> FALSE, colls |-> colls]

\* Indexer.__init__ in an environment whose EMBEDDING_DIMENSION is size
Construct ==
    \E size \in EnvDimensions :
        LET e == _ensure_collection_exists(collections, CollectionName, size) IN
        /\ dir.pc = "idle"
        /\ collections' = e.colls
        /\ indexer' = [constructed |-> TRUE]
        /\ last' = [op |-> "construct", size |-> size, created |-> e.created]
        /\ UNCHANGED <<points, dir, nIngested>>

\* Indexer.index_file called by a driver
IndexFile ==
    \E file_path \in FilePaths :
    \E completion \in CompletionsFor(file_path) :
    \E embedding \in EmbeddingsFor(file_path, completion) :
        /\ indexer.constructed
        /\ dir.pc = "idle"
        /\ Cardinality(points) < MaxPoints
        /\ \E point_id \in PointIdsFor(embedding, {p.id : p \in points}) :
            LET r == index_file(file_path, completion, embedding, point_id,
                                CollectionName, collections, points) IN
            /\ points' = r.pts
            /\ nIngested' = IF r.error = "none" THEN nIngested + 1 ELSE nIngested
            /\ last' = IndexFileRecord("index_file", file_path, completion, embedding, point_id, r)
            /\ UNCHANGED <<collections, indexer, dir>>

\* os.listdir(directory_path): the entries in an order the file system chooses
ListdirOrders ==
    { s \in [1 .. Cardinality(DirectoryListing) -> DirectoryListing] :
        \A i, j \in DOMAIN s : i # j => s[i] # s[j] }

\* index_directory with a loop that goes on to the next file after a failure
index_directory_step_continue(d, filename, r) ==
    LET n == d.pos + 1
        pc == IF n = Len(d.order) THEN "done" ELSE "running" IN
    IF r.error # "none"
    THEN [d EXCEPT !.pc = pc, !.pos = n, !.attempted = Append(@, filename),
                   !.nFailed = @ + 1]
    ELSE [d EXCEPT !.pc = pc, !.pos = n, !.attempted = Append(@, filename),
                   !.ingested = Append(@, r.point_id)]

\* one iteration of the loop of index_directory over a .pdf entry, r being
\* the outcome of its index_file call: an exception leaves the loop, a
\* success moves on to the next entry (the loop ends after the last one)
index_directory_step(d, filename, r) ==
    LET n == d.pos + 1
        pc == IF n = Len(d.order) THEN "done" ELSE "running" IN
    IF r.error # "none"
    THEN [d EXCEPT !.pc = "failed", !.attempted = Append(@, filename),
                   !.nFailed = @ + 1]
    ELSE [d EXCEPT !.pc = pc, !.pos = n, !.attempted = Append(@, filename),
                   !.ingested = Append(@, r.point_id)]

\* one iteration over an entry that does not end in .pdf
index_directory_skip(d) ==
    LET n == d.pos + 1 IN
    [d EXCEPT !.pc = IF n = Len(d.order) THEN "done" ELSE "running", !.pos = n]

\* index_directory up to the first iteration of its loop
IndexDirectoryStart ==
    \E directory_path \in DirectoryPaths, order \in ListdirOrders :
        /\ indexer.constructed
        /\ dir.pc = "idle"
        /\ IF ~path_exists(directory_path)
           THEN /\ dir' = IdleDir
                /\ last' = [op |-> "index_directory", directory_path |-> directory_path,
                            error |-> "FileNotFoundError"]
           ELSE /\ dir' = [IdleDir EXCEPT !.pc = "running", !.order = order]
                /\ last' = [op |-> "index_directory", directory_path |-> directory_path,
                            error |-> "none"]
        /\ UNCHANGED <<collections, points, indexer, nIngested>>

\* an iteration of the loop of index_directory that calls index_file
IndexDirectoryFile ==
    /\ dir.pc = "running"
    /\ endswith_pdf(dir.order[dir.pos + 1])
    /\ Cardinality(points) < MaxPoints
    /\ LET filename == dir.order[dir.pos + 1]
           file_path == path_join(CvsDirectory, filename) IN
       \E completion \in CompletionsFor(file_path) :
       \E embedding \in EmbeddingsFor(file_path, completion) :
       \E point_id \in PointIdsFor(embedding, {p.id : p \in points}) :
            LET r == index_file(file_path, completion, embedding, point_id,
                                CollectionName, collections, points)
                rec == IndexFileRecord("index_directory_file", file_path, completion,
                                       embedding, point_id, r) IN
            /\ points' = r.pts
            /\ nIngested' = IF r.error = "none" THEN nIngested + 1 ELSE nIngested
            /\ dir' = index_directory_step(dir, filename, rec)
            /\ last' = rec
            /\ UNCHANGED <<collections, indexer>>

\* an iteration of the loop of index_directory over another kind of entry
IndexDirectorySkip ==
    /\ dir.pc = "running"
    /\ ~endswith_pdf(dir.order[dir.pos + 1])
    /\ dir' = index_directory_skip(dir)
    /\ last' = [op |-> "index_directory_skip", filename |-> dir.order[dir.pos + 1]]
    /\ UNCHANGED <<collections, points, indexer, nIngested>>

\* ------------------------------------------------------------------- server
COLLECTION_NAME == "documents"
DefaultLimit == 4

\* request.json: None, or a JSON object with the keys in keys
NoBody == [isNone |-> TRUE, keys |-> {}, query |-> "", limit |-> 0, filters |-> EmptyDict]
Body(keys, query, limit, filters) ==
    [isNone |-> FALSE, keys |-> keys, query |-> query, limit |-> limit, filters |-> filters]

FilterMaps ==
    { EmptyDict,
      [location |-> "Remote"],
      "metadata.location" :> "Remote",
      ("metadata.location" :> "Remote") @@ ("filename" :> "a.pdf") }

Bodies ==
    { NoBody,
      Body({}, "", 0, EmptyDict),
      Body({"limit"}, "", 1, EmptyDict),
      Body({"query"}, "", 0, EmptyDict),
      Body({"query"}, QueryText, 0, EmptyDict),
      Body({"query", "limit"}, QueryText, 1, EmptyDict) }
    \cup { Body({"query", "filters"}, QueryText, 0, f) : f \in FilterMaps }
    \cup { Body({"query", "limit", "filters"}, QueryText, 1, f) : f \in FilterMaps }

NoneFilter == [isNone |-> TRUE, must |-> {}]

\* a translation in which a map without entries becomes a filter that no
\* payload satisfies
search_filter_match_nothing(metadata_filters) ==
    [isNone |-> FALSE,
     must |-> { [key |-> k, value |-> metadata_filters[k]] : k \in DOMAIN metadata_filters }
              \cup (IF DOMAIN metadata_filters = {} THEN {[key |-> "name", value |-> ""]} ELSE {})]

\* the translation of the filters map: one FieldCondition per entry, and
\* Filter(must = conditions) only when there is a condition
search_filter(metadata_filters) ==
    LET filter_conditions ==
            { [key |-> k, value |-> metadata_filters[k]] : k \in DOMAIN metadata_filters } IN
    IF filter_conditions # {}
    THEN [isNone |-> FALSE, must |-> filter_conditions]
    ELSE NoneFilter

body_limit(data) == IF "limit" \in data.keys THEN data.limit ELSE DefaultLimit
body_filters(data) == IF "filters" \in data.keys THEN data.filters ELSE EmptyDict

SearchResponse(status, calls, data) == [status |-> status, calls |-> calls, data |-> data]

\* search_documents: the responses the handler can give to one request, given
\* the answer of the embedding endpoint
search_documents(data, embedding, colls, pts) ==
    IF data.isNone \/ data.keys = {} \/ "query" \notin data.keys
    THEN { SearchResponse(400, <<>>, <<>>) }
    ELSE LET query_text == data.query
             limit == body_limit(data)
             metadata_filters == body_filters(data)
             f == search_filter(metadata_filters) IN
         IF ~embedding.ok
         THEN { SearchResponse(500, <<"embedding">>, <<>>) }
         ELSE LET s == qdrant_search(colls, pts, COLLECTION_NAME, embedding.vector, f, limit) IN
              IF s.raised
              THEN { SearchResponse(500, <<"embedding", "search">>, <<>>) }
              ELSE { SearchResponse(200, <<"embedding", "search">>, r) : r \in s.rankings }

\* POST /api/search.  The handler only reads the store, so it is taken
\* between the indexer's operations.
SearchDocuments ==
    \E data \in Bodies :
    \E embedding \in (IF "query" \in data.keys THEN EmbeddingResponses(data.query)
                        ELSE {NoEmbedding}) :
        /\ dir.pc = "idle"
        /\ \E resp \in search_documents(data, embedding, collections, points) :
            last' = [op |-> "search", body |-> data,
                     embedding |-> IF Called(resp.calls, "embedding") THEN embedding
                                   ELSE NoEmbedding,
                     status |-> resp.status, calls |-> resp.calls, data |-> resp.data]
        /\ UNCHANGED <<collections, points, indexer, dir, nIngested>>

\* index_directory is over: main reports how it ended and returns
MainReturn ==
    /\ dir.pc \in {"done", "failed"}
    /\ dir' = IdleDir
    /\ last' = [op |-> "main_return",
                message |-> IF dir.pc = "done" THEN "Successfully indexed all PDF files"
                            ELSE "An error occurred while indexing"]
    /\ UNCHANGED <<collections, points, indexer, nIngested>>

Next == Construct \/ IndexFile \/ IndexDirectoryStart \/ IndexDirectoryFile
        \/ IndexDirectorySkip \/ MainReturn \/ SearchDocuments

Spec == Init /\ [][Next]_vars

\* ==================================================================== claims
FixedFields ==
    {"name", "age", "years_of_experience", "skills", "languages", "education",
     "current_role", "location"}
TemplateDefault(k) ==
    IF k \in {"skills", "languages", "education"} THEN JList(<<>>) ELSE JNull

IsIndexOp(l) == l.op \in {"index_file", "index_directory_file"}
PointIdsOf(pts) == {p.id : p \in pts}
AllSteps == <<"extract_text", "completion", "embedding", "upsert">>
MissingPath == "cvs/missing.pdf"

\* C1, as stated: whenever the completion returned a JSON object,
\* extract_metadata raises nothing and returns a record whose keys are exactly
\* the fixed field set, omitted fields at their template default and supplied
\* fields at the supplied value.
C1_ExactFieldSet ==
    (IsIndexOp(last) /\ last.completion.kind = "object") =>
        /\ ~last.md.raised
        /\ DOMAIN last.md.metadata = FixedFields
        /\ \A k \in FixedFields :
              last.md.metadata[k] = IF k \in DOMAIN last.completion.obj
                                    THEN last.completion.obj[k] ELSE TemplateDefault(k)

\* C1, amended: whenever the completion returned a JSON object,
\* extract_metadata raises nothing and returns a record whose keys are the
\* fixed field set together with the keys of the object (so exactly the fixed
\* set when the object carries no other key); every fixed field the object
\* omitted holds its template default and every key the object supplied holds
\* the supplied value.
C1_FieldSetMerged ==
    (IsIndexOp(last) /\ last.completion.kind = "object") =>
        /\ ~last.md.raised
        /\ DOMAIN last.md.metadata = FixedFields \cup DOMAIN last.completion.obj
        /\ (DOMAIN last.completion.obj \subseteq FixedFields
                => DOMAIN last.md.metadata = FixedFields)
        /\ \A k \in FixedFields \ DOMAIN last.completion.obj :
              last.md.metadata[k] = TemplateDefault(k)
        /\ \A k \in DOMAIN last.completion.obj :
              last.md.metadata[k] = last.completion.obj[k]

\* an ingestion whose completion supplied some fixed fields, omitted others
\* and carried a key outside the fixed set
C1_Witness ==
    /\ IsIndexOp(last)
    /\ last.completion.kind = "object"
    /\ "email" \in DOMAIN last.completion.obj
    /\ "location" \in DOMAIN last.completion.obj
    /\ "age" \notin DOMAIN last.completion.obj
    /\ last.error = "none"

\* C2: the store holds as many records, under as many distinct ids, as there
\* were successful ingestions; a successful ingestion adds one record under an
\* id not in use before, and no step removes or changes a stored record.
C2_OneNewRecordPerIngestion ==
    /\ [](Cardinality(points) = nIngested /\ Cardinality(PointIdsOf(points)) = nIngested)
    /\ [][/\ points \subseteq points'
           /\ (IsIndexOp(last') /\ last'.error = "none") =>
                 /\ Cardinality(points') = Cardinality(points) + 1
                 /\ last'.point_id \notin PointIdsOf(points)
                 /\ last'.point_id \in PointIdsOf(points')]_vars

\* the same document ingested twice: two records under two ids
C2_Witness ==
    /\ nIngested = 2
    /\ \E p, q \in points :
          /\ p.id # q.id
          /\ p.payload.filepath = q.payload.filepath
          /\ p.payload.metadata = q.payload.metadata

\* C3: index_file on the path that does not exist ends in FileNotFoundError
\* without a call to any collaborator and leaves the store as it was.
C3_MissingPathNoCalls ==
    [][(last'.op = "index_file" /\ last'.file_path = MissingPath) =>
          /\ last'.error = "FileNotFoundError"
          /\ last'.calls = <<>>
          /\ points' = points
          /\ collections' = collections]_vars

\* index_file on the missing path, called on a store that holds a record
C3_Witness ==
    /\ last.op = "index_file"
    /\ last.file_path = MissingPath
    /\ last.error = "FileNotFoundError"
    /\ points # {}

\* the records whose metadata holds, for every filtered field, the filter value
MetadataMatches(p, filters) ==
    \A k \in DOMAIN filters :
        k \in DOMAIN p.payload.metadata /\ p.payload.metadata[k] = JStr(filters[k])

\* C4, as stated: a successful query whose filter map names metadata fields
\* returns a ranking of the records whose metadata matches every filter:
\* truncated to the limit, by descending score, no such record left out while
\* there is room or a worse one is returned, no other record returned.
C4_FilterOnMetadataFields ==
    (/\ last.op = "search"
     /\ last.status = 200
     /\ DOMAIN body_filters(last.body) # {}
     /\ DOMAIN body_filters(last.body) \subseteq FixedFields) =>
        last.data \in Rankings({p \in points : MetadataMatches(p, body_filters(last.body))},
                               last.embedding.vector, body_limit(last.body))

\* C5, as stated: every stored vector has the size of the collection, and an
\* embedding of another size never gets as far as an upsert request.
C5_DimensionGuard ==
    /\ \A p \in points : Len(p.vector) = collection_size(collections, CollectionName)
    /\ (IsIndexOp(last) /\ last.embedding.ok
         /\ Len(last.embedding.vector) # collection_size(collections, CollectionName))
            => ~Called(last.calls, "upsert")

\* C6, as stated: a request without a body, without the key query or with an
\* empty query is answered 400 and makes no embedding request and no search.
C6_EmptyQueryRejected ==
    (/\ last.op = "search"
     /\ (last.body.isNone \/ "query" \notin last.body.keys \/ last.body.query = "")) =>
        last.status = 400 /\ last.calls = <<>>

\* C7: once a file of the directory has failed, index_directory has ended with
\* that error: the failing file is the last one attempted, the files attempted
\* are the .pdf entries up to it in listing order, each one before it has its
\* record in the store, and the next step is main's report, which leaves the
\* store alone.
C7_Inv ==
    dir.nFailed > 0 =>
        /\ dir.pc = "failed"
        /\ dir.nFailed = 1
        /\ IsIndexOp(last) /\ last.error # "none"
        /\ dir.attempted = SelectSeq(SubSeq(dir.order, 1, dir.pos + 1), endswith_pdf)
        /\ last.file_path = path_join(CvsDirectory, dir.attempted[Len(dir.attempted)])
        /\ Len(dir.ingested) = Len(dir.attempted) - 1
        /\ \A i \in 1 .. Len(dir.ingested) :
              \E p \in points : /\ p.id = dir.ingested[i]
                                /\ p.payload.filename = dir.attempted[i]

\* C7: the first failure of a file ends index_directory (C7_Inv in every
\* state), and from the failed run the only step is main's report, which
\* attempts no further file and leaves the store alone.
C7_FirstFailureStops ==
    /\ []C7_Inv
    /\ [][dir.pc = "failed" =>
             /\ last'.op = "main_return"
             /\ last'.message = "An error occurred while indexing"
             /\ points' = points]_vars

\* a run that ingested one file, failed on the next and left an entry unvisited
C7_Witness ==
    /\ dir.pc = "failed"
    /\ Len(dir.ingested) = 1
    /\ dir.pos + 1 < Len(dir.order)
    /\ \E p \in points : p.id = dir.ingested[1]

\* C8: _ensure_collection_exists creates the collection exactly when no
\* collection of that name exists, with the size of its environment; when one
\* exists the set of collections and their sizes stay as they are.
C8_EnsureCollectionIdempotent ==
    [][last'.op = "construct" =>
          LET existed == \E c \in collections : c.name = CollectionName IN
          /\ last'.created <=> ~existed
          /\ existed => collections' = collections
          /\ ~existed => collections' =
                collections \cup {[name |-> CollectionName, size |-> last'.size]}]_vars

\* a later call, made in an environment of another dimension, that created
\* nothing
C8_Witness ==
    /\ last.op = "construct"
    /\ ~last.created
    /\ last.size # collection_size(collections, CollectionName)
    /\ Cardinality(collections) = 2

\* C9: a query whose filter map is empty (or absent) is answered as the
\* search without any filter is: an error exactly when that search is
\* rejected, otherwise one of its rankings, which is empty only on an empty
\* store.
C9_EmptyFilterIsNoFilter ==
    (/\ last.op = "search"
     /\ "query" \in last.body.keys
     /\ body_filters(last.body) = EmptyDict
     /\ last.embedding.ok) =>
        LET ref == qdrant_search(collections, points, COLLECTION_NAME,
                                 last.embedding.vector, NoneFilter, body_limit(last.body)) IN
        /\ ref.raised => last.status = 500
        /\ ~ref.raised =>
              /\ last.status = 200
              /\ last.data \in ref.rankings
              /\ points # {} => last.data # <<>>

\* a query with the key filters set to the empty map, answered with two hits
\* of different scores
C9_Witness ==
    /\ last.op = "search"
    /\ "filters" \in last.body.keys
    /\ last.body.filters = EmptyDict
    /\ last.status = 200
    /\ Len(last.data) = 2
    /\ last.data[1].score > last.data[2].score

\* C10: the calls of one index_file are an initial part of text extraction,
\* completion, embedding, upsert; a step is called only after the one before
\* it succeeded; the call ends without error exactly when the upsert was
\* accepted; a call that ends in an error leaves the store as it was.
C10_Inv ==
    IsIndexOp(last) =>
        /\ Len(last.calls) <= 4
        /\ last.calls = SubSeq(AllSteps, 1, Len(last.calls))
        /\ Called(last.calls, "completion") =>
              ~_extract_text_from_pdf(last.file_path).raised
        /\ Called(last.calls, "embedding") =>
              last.completion.kind = "object" /\ ~last.md.raised
        /\ last.md.raised => ~Called(last.calls, "embedding")
        /\ Called(last.calls, "upsert") => last.embedding.ok
        /\ last.error = "none" => last.calls = AllSteps

\* C10: the calls of index_file are in order and stop at the first failure
\* (C10_Inv in every state); a failed call leaves the store unchanged and a
\* successful one writes to it.
C10_StepsInOrder ==
    /\ []C10_Inv
    /\ [][IsIndexOp(last') =>
             /\ last'.error # "none" => points' = points
             /\ last'.error = "none" => points' # points]_vars

\* an ingestion that failed in metadata extraction on a store holding a record
C10_Witness ==
    /\ IsIndexOp(last)
    /\ last.md.raised
    /\ last.calls = <<"extract_text", "completion">>
    /\ points # {}

====
